---- MODULE Spec2Model ----
(***************************************************************************)
(* A model of openexr-rs/src/header.rs: the Header wrapper around the      *)
(* OpenEXR Imf::Header attribute registry, its typed accessors, the        *)
(* process-wide size limits and sanity_check.                              *)
(*                                                                         *)
(* Two layers are kept apart.  The definitions named after the Rust        *)
(* methods (insert, erase, set_dimensions, ...) are translated from        *)
(* header.rs.  The definitions named Imf_Header_* stand for the foreign    *)
(* functions of openexr_sys that header.rs calls; their bodies are not in  *)
(* header.rs and are written from the design document.                     *)
(***************************************************************************)
EXTENDS Integers, Sequences, FiniteSets, TLC

VARIABLES
    headers,    \* header id -> the attribute registry of that Header (a sequence of entries)
    limits,     \* the process-wide size limits
    ret         \* the last call: its operation, arguments and result

vars == <<headers, limits, ret>>

(***************************************************************************)
(* Bounds of the model.                                                    *)
(***************************************************************************)
\* set_dimensions and the size limits are exercised with sizes up to MaxDim.
MaxDim == 3
\* the least width or height handed to set_dimensions is -MinDimBelow.
MinDimBelow == 1

(***************************************************************************)
(* A Rust &str is kept as the sequence of its pieces between NUL bytes:    *)
(* <<"ab">> is "ab", <<"a", "b">> is "a\0b" and <<"">> is the empty string. *)
(***************************************************************************)
HasNul(s) == Len(s) > 1

EmptyStr == <<"">>

\* The well-known attribute names.
N_displayWindow == <<"displayWindow">>
N_dataWindow == <<"dataWindow">>
N_pixelAspectRatio == <<"pixelAspectRatio">>
N_screenWindowCenter == <<"screenWindowCenter">>
N_screenWindowWidth == <<"screenWindowWidth">>
N_lineOrder == <<"lineOrder">>
N_compression == <<"compression">>
N_channels == <<"channels">>
N_name == <<"name">>
N_type == <<"type">>
N_view == <<"view">>
N_version == <<"version">>
N_chunkCount == <<"chunkCount">>
N_tiles == <<"tiles">>
N_preview == <<"preview">>

(***************************************************************************)
(* Attribute payloads.                                                     *)
(***************************************************************************)
\* An f32: a finite number, an infinity (v is its sign) or a NaN.
F(v) == [cls |-> "finite", v |-> v]
F_NaN == [cls |-> "nan", v |-> 0]
F_Inf == [cls |-> "inf", v |-> 1]

IsFinite(f) == f.cls = "finite"
\* f > c and f >= c for an integer c, as IEEE comparison (false on NaN).
FGt(f, c) == \/ f.cls = "finite" /\ f.v > c
             \/ f.cls = "inf" /\ f.v > 0
FGe(f, c) == \/ f.cls = "finite" /\ f.v >= c
             \/ f.cls = "inf" /\ f.v > 0

\* A Box2<i32> laid out as [min.x, min.y, max.x, max.y].
Box(x0, y0, x1, y1) == [min |-> <<x0, y0>>, max |-> <<x1, y1>>]

\* A Vec2<f32> laid out as [x, y].
V2(x, y) == [x |-> x, y |-> y]

\* A typed attribute: its type name and its value.
Attr(t, v) == [type |-> t, value |-> v]
Box2iAttribute(b) == Attr("box2i", b)
StringAttribute(s) == Attr("string", s)
IntAttribute(i) == Attr("int", i)
FloatAttribute(f) == Attr("float", f)
V2fAttribute(v) == Attr("v2f", v)
LineOrderAttribute(lo) == Attr("lineOrder", lo)
CompressionAttribute(c) == Attr("compression", c)
ChannelListAttribute(cl) == Attr("chlist", cl)
TileDescriptionAttribute(td) == Attr("tiledesc", td)
PreviewImageAttribute(p) == Attr("preview", p)

\* An entry of the registry.
Entry(n, a) == [name |-> n, type |-> a.type, value |-> a.value]

(***************************************************************************)
(* The registry: a sequence of entries in first-insertion order.           *)
(***************************************************************************)
\* The indices of the entries named n.
IndicesOf(hdr, n) == {i \in 1..Len(hdr) : hdr[i].name = n}

\* The first index of an entry named n, 0 when there is none: a null pointer.
FindIndex(hdr, n) ==
    IF IndicesOf(hdr, n) = {} THEN 0
    ELSE CHOOSE i \in IndicesOf(hdr, n) : \A j \in IndicesOf(hdr, n) : i <= j

HasAttr(hdr, n) == FindIndex(hdr, n) # 0

\* hdr without its entries named n.
RECURSIVE Without(_, _)
Without(hdr, n) ==
    IF hdr = <<>> THEN <<>>
    ELSE IF Head(hdr).name = n THEN Without(Tail(hdr), n)
    ELSE <<Head(hdr)>> \o Without(Tail(hdr), n)

(***************************************************************************)
(* The foreign functions of openexr_sys on the registry.  Each returns the *)
(* exception it raised ("Ok" when none) and the registry it leaves.        *)
(***************************************************************************)
\* Imf::Header::insert: a new name is appended; an existing name is
\* overwritten in place when the types agree and refused when they differ.
Imf_Header_insert(hdr, name, attribute) ==
    LET i == FindIndex(hdr, name) IN
    IF name = EmptyStr THEN [code |-> "InvalidName", hdr |-> hdr]
    ELSE IF i = 0 THEN [code |-> "Ok", hdr |-> Append(hdr, Entry(name, attribute))]
    ELSE IF hdr[i].type # attribute.type THEN [code |-> "TypeMismatch", hdr |-> hdr]
    ELSE [code |-> "Ok", hdr |-> [hdr EXCEPT ![i] = Entry(name, attribute)]]

\* Imf::Header::erase: removes the entry named name, if there is one.
Imf_Header_erase(hdr, name) ==
    [code |-> "Ok", hdr |-> Without(hdr, name)]

\* Imf::Header::findTypedAttribute<Box2iAttribute>: a pointer to the entry
\* (its index), null (0) when the name is absent or the entry has another type.
Imf_Header_findTypedAttribute_Box2i(hdr, name) ==
    LET i == FindIndex(hdr, name) IN
    IF i # 0 /\ hdr[i].type = "box2i" THEN i ELSE 0

\* Imf::Header::Header(width, height, ...): the eight mandatory attributes,
\* both windows [(0,0), (width-1, height-1)], an empty channel list.
Imf_Header_with_dimensions(width, height, pixel_aspect_ratio, screen_window_center, screen_window_width, line_order, compression) ==
    << Entry(N_displayWindow, Box2iAttribute(Box(0, 0, width - 1, height - 1))),
       Entry(N_dataWindow, Box2iAttribute(Box(0, 0, width - 1, height - 1))),
       Entry(N_pixelAspectRatio, FloatAttribute(pixel_aspect_ratio)),
       Entry(N_screenWindowCenter, V2fAttribute(screen_window_center)),
       Entry(N_screenWindowWidth, FloatAttribute(screen_window_width)),
       Entry(N_lineOrder, LineOrderAttribute(line_order)),
       Entry(N_compression, CompressionAttribute(compression)),
       Entry(N_channels, ChannelListAttribute(<<>>)) >>

\* Imf::Header::Header(dataWindow, displayWindow, ...): the eight mandatory
\* attributes with the two windows as given, an empty channel list.
Imf_Header_ctor(data_window, display_window, pixel_aspect_ratio, screen_window_center, screen_window_width, line_order, compression) ==
    << Entry(N_displayWindow, Box2iAttribute(display_window)),
       Entry(N_dataWindow, Box2iAttribute(data_window)),
       Entry(N_pixelAspectRatio, FloatAttribute(pixel_aspect_ratio)),
       Entry(N_screenWindowCenter, V2fAttribute(screen_window_center)),
       Entry(N_screenWindowWidth, FloatAttribute(screen_window_width)),
       Entry(N_lineOrder, LineOrderAttribute(line_order)),
       Entry(N_compression, CompressionAttribute(compression)),
       Entry(N_channels, ChannelListAttribute(<<>>)) >>

\* Imf::Header::typedAttribute<T>(name): a pointer to the entry named name
\* of type type; an exception when it is absent or has another type.
Imf_Header_typedAttribute(hdr, name, type) ==
    LET i == FindIndex(hdr, name) IN
    IF i = 0 THEN [code |-> "NotFound", ptr |-> 0]
    ELSE IF hdr[i].type # type THEN [code |-> "TypeMismatch", ptr |-> 0]
    ELSE [code |-> "Ok", ptr |-> i]

Imf_Header_displayWindow(hdr) == Imf_Header_typedAttribute(hdr, N_displayWindow, "box2i")
Imf_Header_dataWindow(hdr) == Imf_Header_typedAttribute(hdr, N_dataWindow, "box2i")
Imf_Header_pixelAspectRatio(hdr) == Imf_Header_typedAttribute(hdr, N_pixelAspectRatio, "float")
Imf_Header_screenWindowWidth(hdr) == Imf_Header_typedAttribute(hdr, N_screenWindowWidth, "float")
Imf_Header_screenWindowCenter(hdr) == Imf_Header_typedAttribute(hdr, N_screenWindowCenter, "v2f")
Imf_Header_compression(hdr) == Imf_Header_typedAttribute(hdr, N_compression, "compression")
Imf_Header_channels(hdr) == Imf_Header_typedAttribute(hdr, N_channels, "chlist")
Imf_Header_lineOrder(hdr) == Imf_Header_typedAttribute(hdr, N_lineOrder, "lineOrder")
Imf_Header_tileDescription(hdr) == Imf_Header_typedAttribute(hdr, N_tiles, "tiledesc")
Imf_Header_name(hdr) == Imf_Header_typedAttribute(hdr, N_name, "string")
Imf_Header_type(hdr) == Imf_Header_typedAttribute(hdr, N_type, "string")
Imf_Header_view(hdr) == Imf_Header_typedAttribute(hdr, N_view, "string")
Imf_Header_version(hdr) == Imf_Header_typedAttribute(hdr, N_version, "int")
Imf_Header_chunkCount(hdr) == Imf_Header_typedAttribute(hdr, N_chunkCount, "int")
Imf_Header_previewImage(hdr) == Imf_Header_typedAttribute(hdr, N_preview, "preview")

\* Imf::Header::hasTileDescription.
Imf_Header_hasTileDescription(hdr) == Imf_Header_tileDescription(hdr).code = "Ok"

\* Imf::Header::hasVersion, hasChunkCount, hasView, hasPreviewImage: the
\* attribute is there, under its own type.
Imf_Header_hasVersion(hdr) == Imf_Header_version(hdr).code = "Ok"
Imf_Header_hasChunkCount(hdr) == Imf_Header_chunkCount(hdr).code = "Ok"
Imf_Header_hasView(hdr) == Imf_Header_view(hdr).code = "Ok"
Imf_Header_hasPreviewImage(hdr) == Imf_Header_previewImage(hdr).code = "Ok"

\* Imf::Header::setName, setType, setTileDescription: insert under the
\* well-known name.
Imf_Header_setName(hdr, s) == Imf_Header_insert(hdr, N_name, StringAttribute(s))
Imf_Header_setType(hdr, s) == Imf_Header_insert(hdr, N_type, StringAttribute(s))
Imf_Header_setTileDescription(hdr, td) == Imf_Header_insert(hdr, N_tiles, TileDescriptionAttribute(td))

\* Imf::Header::setVersion, setView, setPreviewImage: likewise.
Imf_Header_setVersion(hdr, v) == Imf_Header_insert(hdr, N_version, IntAttribute(v))
Imf_Header_setView(hdr, s) == Imf_Header_insert(hdr, N_view, StringAttribute(s))
Imf_Header_setPreviewImage(hdr, p) == Imf_Header_insert(hdr, N_preview, PreviewImageAttribute(p))

\* Imf::Header::setMaxImageSize, setMaxTileSize.
Imf_Header_setMaxImageSize(lim, max_width, max_height) ==
    [lim EXCEPT !.imageWidth = max_width, !.imageHeight = max_height]
Imf_Header_setMaxTileSize(lim, max_width, max_height) ==
    [lim EXCEPT !.tileWidth = max_width, !.tileHeight = max_height]

(***************************************************************************)
(* Imf::Header::sanityCheck: seven checks in a fixed order, the first      *)
(* violation is the one reported.  A check that reads an attribute which   *)
(* is absent, or stored under another type, fails.                         *)
(***************************************************************************)
BoxWidth(b) == b.max[1] - b.min[1] + 1
BoxHeight(b) == b.max[2] - b.min[2] + 1
BoxNonEmpty(b) == b.min[1] <= b.max[1] /\ b.min[2] <= b.max[2]

\* A size limit of zero means unlimited.
WithinLimit(size, limit) == limit = 0 \/ size <= limit

\* max - min + 1 > 0 and max - min + 1 <= limit, taken over the integers:
\* written without the + 1, which leaves the i32 range when max is i32::MAX.
SpanPositive(lo, hi) == hi - lo >= 0
SpanWithinLimit(lo, hi, limit) == limit = 0 \/ hi - lo < limit

\* 1. Both windows are non-empty and the data window is within the image
\*    size limits.
CheckWindows(hdr, lim) ==
    LET disp == Imf_Header_displayWindow(hdr)
        data == Imf_Header_dataWindow(hdr)
    IN  /\ disp.code = "Ok"
        /\ BoxNonEmpty(hdr[disp.ptr].value)
        /\ data.code = "Ok"
        /\ BoxNonEmpty(hdr[data.ptr].value)
        /\ SpanPositive(hdr[data.ptr].value.min[1], hdr[data.ptr].value.max[1])
        /\ SpanPositive(hdr[data.ptr].value.min[2], hdr[data.ptr].value.max[2])
        /\ SpanWithinLimit(hdr[data.ptr].value.min[1], hdr[data.ptr].value.max[1], lim.imageWidth)
        /\ SpanWithinLimit(hdr[data.ptr].value.min[2], hdr[data.ptr].value.max[2], lim.imageHeight)

\* 2. The pixel aspect ratio is finite and > 0.
CheckPixelAspectRatio(hdr) ==
    LET par == Imf_Header_pixelAspectRatio(hdr)
    IN  /\ par.code = "Ok"
        /\ IsFinite(hdr[par.ptr].value)
        /\ FGt(hdr[par.ptr].value, 0)

\* 3. The screen window width is finite and >= 0.
CheckScreenWindowWidth(hdr) ==
    LET sww == Imf_Header_screenWindowWidth(hdr)
    IN  /\ sww.code = "Ok"
        /\ IsFinite(hdr[sww.ptr].value)
        /\ FGe(hdr[sww.ptr].value, 0)

\* 4. Every channel has a non-empty name that no other channel has, and
\*    positive sampling factors.  The list itself may be empty: the default
\*    header, which has no channel, is documented to pass.
CheckChannels(hdr) ==
    LET ch == Imf_Header_channels(hdr)
    IN  /\ ch.code = "Ok"
        /\ LET cl == hdr[ch.ptr].value
           IN  \A i \in 1..Len(cl) :
                   /\ cl[i].name # EmptyStr
                   /\ cl[i].xSampling > 0
                   /\ cl[i].ySampling > 0
                   /\ \A j \in 1..Len(cl) : cl[i].name = cl[j].name => i = j

LevelModes == {"ONE_LEVEL", "MIPMAP_LEVELS", "RIPMAP_LEVELS"}

\* 5. A tiled header has a tile description with a positive tile size
\*    within the tile size limits and a recognized level mode.
CheckTileDescription(hdr, lim, isTiled) ==
    isTiled =>
        /\ Imf_Header_hasTileDescription(hdr)
        /\ LET td == hdr[Imf_Header_tileDescription(hdr).ptr].value
           IN  /\ td.xSize > 0
               /\ td.ySize > 0
               /\ WithinLimit(td.xSize, lim.tileWidth)
               /\ WithinLimit(td.ySize, lim.tileHeight)
               /\ td.mode \in LevelModes

ImageTypes == { <<"scanlineimage">>, <<"tiledimage">>, <<"deepscanline">>, <<"deeptile">> }
TiledImageTypes == { <<"tiledimage">>, <<"deeptile">> }

\* 6. A part of a multi-part file has a non-empty name and one of the four
\*    image types, a tiled one only when the file is tiled.
CheckNameAndType(hdr, isTiled, isMultiPart) ==
    isMultiPart =>
        LET nm == Imf_Header_name(hdr)
            ty == Imf_Header_type(hdr)
        IN  /\ nm.code = "Ok"
            /\ hdr[nm.ptr].value # EmptyStr
            /\ ty.code = "Ok"
            /\ hdr[ty.ptr].value # EmptyStr
            /\ hdr[ty.ptr].value \in ImageTypes
            /\ hdr[ty.ptr].value \in TiledImageTypes => isTiled

\* 7. RandomY is a line order of tiled files only.
CheckLineOrder(hdr, isTiled) ==
    LET lo == Imf_Header_lineOrder(hdr)
    IN  /\ lo.code = "Ok"
        /\ hdr[lo.ptr].value = "RandomY" => isTiled

\* The checks in their order, each with the violation it reports.
SanityChecks(hdr, lim, isTiled, isMultiPart) ==
    << [ok |-> CheckWindows(hdr, lim), violation |-> "windows"],
       [ok |-> CheckPixelAspectRatio(hdr), violation |-> "pixelAspectRatio"],
       [ok |-> CheckScreenWindowWidth(hdr), violation |-> "screenWindowWidth"],
       [ok |-> CheckChannels(hdr), violation |-> "channels"],
       [ok |-> CheckTileDescription(hdr, lim, isTiled), violation |-> "tileDescription"],
       [ok |-> CheckNameAndType(hdr, isTiled, isMultiPart), violation |-> "nameAndType"],
       [ok |-> CheckLineOrder(hdr, isTiled), violation |-> "lineOrder"] >>

\* The violation of the first check that fails, "Ok" when none does.
RECURSIVE FirstViolation(_)
FirstViolation(checks) ==
    IF checks = <<>> THEN "Ok"
    ELSE IF ~Head(checks).ok THEN Head(checks).violation
    ELSE FirstViolation(Tail(checks))

Imf_Header_sanityCheck(hdr, lim, isTiled, isMultiPart) ==
    FirstViolation(SanityChecks(hdr, lim, isTiled, isMultiPart))

(***************************************************************************)
(* header.rs: construction.                                                *)
(***************************************************************************)
\* A variant of the default header built with a wrong size.
Header_default_empty ==
    Imf_Header_with_dimensions(0, 0, F(1), V2(F(0), F(0)), F(1), "IncreasingY", "Zip")

\* impl Default for Header.
Header_default ==
    Imf_Header_with_dimensions(64, 64, F(1), V2(F(0), F(0)), F(1), "IncreasingY", "Zip")

(***************************************************************************)
(* header.rs: user attributes.  Each method is a function from the         *)
(* registry and the arguments to the outcome (tag "Ok", "Err" with the     *)
(* error, "Panic", "Some" or "None") and the registry left behind.         *)
(***************************************************************************)
\* CString::new(name): fails when name holds a NUL byte; .expect() then panics.
CString_new(name) == [ok |-> ~HasNul(name), bytes |-> name]

\* .into_result()?: an exception of the foreign call becomes Err(error).
into_result(code) ==
    IF code = "Ok" THEN [tag |-> "Ok", err |-> "none"] ELSE [tag |-> "Err", err |-> code]

Panicked == [tag |-> "Panic", err |-> "none"]

\* Header::new: Ok(Header) unless the foreign constructor raised.
Header_new(data_window, display_window, pixel_aspect_ratio, screen_window_center, screen_window_width, line_order, compression) ==
    [out |-> into_result("Ok"),
     hdr |-> Imf_Header_ctor(data_window, display_window, pixel_aspect_ratio, screen_window_center, screen_window_width, line_order, compression)]

\* A variant of insert that drops the foreign call's status.
insert_unchecked(hdr, name, attribute) ==
    LET c_name == CString_new(name) IN
    IF ~c_name.ok THEN [out |-> Panicked, hdr |-> hdr]
    ELSE [out |-> into_result("Ok"),
          hdr |-> Imf_Header_insert(hdr, c_name.bytes, attribute).hdr]

\* Header::insert.
insert(hdr, name, attribute) ==
    LET c_name == CString_new(name) IN
    IF ~c_name.ok THEN [out |-> Panicked, hdr |-> hdr]
    ELSE LET r == Imf_Header_insert(hdr, c_name.bytes, attribute) IN
         [out |-> into_result(r.code), hdr |-> r.hdr]

\* Header::erase.
erase(hdr, name) ==
    LET c_name == CString_new(name) IN
    IF ~c_name.ok THEN [out |-> Panicked, hdr |-> hdr]
    ELSE LET r == Imf_Header_erase(hdr, c_name.bytes) IN
         [out |-> into_result(r.code), hdr |-> r.hdr]

\* The entry a non-null attribute pointer is read as: header.rs casts the
\* pointer to Box2iAttribute without looking at the entry's type.
NoEntry == [name |-> EmptyStr, type |-> "none", value |-> 0]

\* Header::find_typed_attribute_box2i.
find_typed_attribute_box2i(hdr, name) ==
    LET c_name == CString_new(name) IN
    IF ~c_name.ok THEN [out |-> Panicked, ref |-> NoEntry]
    ELSE LET attr_ptr == Imf_Header_findTypedAttribute_Box2i(hdr, c_name.bytes) IN
         IF attr_ptr # 0
         THEN [out |-> [tag |-> "Some", err |-> "none"], ref |-> hdr[attr_ptr]]
         ELSE [out |-> [tag |-> "None", err |-> "none"], ref |-> NoEntry]

\* Header::find_typed_attribute_box2i_mut.
find_typed_attribute_box2i_mut(hdr, name) ==
    LET c_name == CString_new(name) IN
    IF ~c_name.ok THEN [out |-> Panicked, ref |-> NoEntry]
    ELSE LET attr_ptr == Imf_Header_findTypedAttribute_Box2i(hdr, c_name.bytes) IN
         IF attr_ptr # 0
         THEN [out |-> [tag |-> "Some", err |-> "none"], ref |-> hdr[attr_ptr]]
         ELSE [out |-> [tag |-> "None", err |-> "none"], ref |-> NoEntry]

(***************************************************************************)
(* header.rs: the standard attributes.                                     *)
(***************************************************************************)
Returned == [tag |-> "Ok", err |-> "none"]

I32_MIN == -2147483647 - 1
I32_MAX == -(I32_MIN + 1)

\* a - b on i32 for b >= 0: on overflow a build with overflow checks panics
\* and a build without wraps around.
i32_sub(a, b, overflow_checks) ==
    IF a < I32_MIN + b
    THEN IF overflow_checks THEN [ok |-> FALSE, v |-> 0]
         ELSE [ok |-> TRUE, v |-> I32_MAX - (((I32_MIN + b) - a) - 1)]
    ELSE [ok |-> TRUE, v |-> a - b]

\* Header::display_window_mut: .unwrap() panics when the foreign call raised.
display_window_mut(hdr) ==
    LET r == Imf_Header_displayWindow(hdr) IN
    IF r.code # "Ok" THEN [out |-> Panicked, ptr |-> 0] ELSE [out |-> Returned, ptr |-> r.ptr]

\* Header::data_window_mut.
data_window_mut(hdr) ==
    LET r == Imf_Header_dataWindow(hdr) IN
    IF r.code # "Ok" THEN [out |-> Panicked, ptr |-> 0] ELSE [out |-> Returned, ptr |-> r.ptr]

NoBox == Box(0, 0, 0, 0)

\* Header::display_window.
display_window(hdr) ==
    LET r == Imf_Header_displayWindow(hdr) IN
    IF r.code # "Ok" THEN [out |-> Panicked, value |-> NoBox]
    ELSE [out |-> Returned, value |-> hdr[r.ptr].value]

\* Header::data_window.
data_window(hdr) ==
    LET r == Imf_Header_dataWindow(hdr) IN
    IF r.code # "Ok" THEN [out |-> Panicked, value |-> NoBox]
    ELSE [out |-> Returned, value |-> hdr[r.ptr].value]

\* A variant of set_dimensions that stores the size as the max corner.
set_dimensions_off_by_one(hdr, width, height, overflow_checks) ==
    LET box == Box(0, 0, width, height)
        data == data_window_mut(hdr)
        hdr1 == [hdr EXCEPT ![data.ptr].value = box]
        disp == display_window_mut(hdr1)
    IN  IF data.out.tag = "Panic" THEN [out |-> Panicked, hdr |-> hdr]
        ELSE IF disp.out.tag = "Panic" THEN [out |-> Panicked, hdr |-> hdr1]
        ELSE [out |-> Returned, hdr |-> [hdr1 EXCEPT ![disp.ptr].value = box]]

\* A variant of set_dimensions that builds the header anew from the size.
set_dimensions_rebuilding(hdr, width, height, overflow_checks) ==
    [out |-> Returned,
     hdr |-> Imf_Header_with_dimensions(width, height, F(1), V2(F(0), F(0)), F(1), "IncreasingY", "Zip")]

\* Header::set_dimensions.  The right operand [0, 0, width - 1, height - 1]
\* is evaluated before the window is looked up; the data window is written
\* before the display window is looked up.
set_dimensions(hdr, width, height, overflow_checks) ==
    LET x1 == i32_sub(width, 1, overflow_checks)
        y1 == i32_sub(height, 1, overflow_checks)
        box == Box(0, 0, x1.v, y1.v)
        data == data_window_mut(hdr)
        hdr1 == [hdr EXCEPT ![data.ptr].value = box]
        disp == display_window_mut(hdr1)
    IN  IF ~x1.ok \/ ~y1.ok THEN [out |-> Panicked, hdr |-> hdr]
        ELSE IF data.out.tag = "Panic" THEN [out |-> Panicked, hdr |-> hdr]
        ELSE IF disp.out.tag = "Panic" THEN [out |-> Panicked, hdr |-> hdr1]
        ELSE [out |-> Returned, hdr |-> [hdr1 EXCEPT ![disp.ptr].value = box]]

\* Header::from_dimensions.
from_dimensions(width, height, overflow_checks) ==
    set_dimensions(Header_default, width, height, overflow_checks)

\* Header::set_pixel_aspect_ratio.
set_pixel_aspect_ratio(hdr, par) ==
    LET r == Imf_Header_pixelAspectRatio(hdr) IN
    IF r.code # "Ok" THEN [out |-> Panicked, hdr |-> hdr]
    ELSE [out |-> Returned, hdr |-> [hdr EXCEPT ![r.ptr].value = par]]

\* Header::pixel_aspect_ratio.
pixel_aspect_ratio(hdr) ==
    LET r == Imf_Header_pixelAspectRatio(hdr) IN
    IF r.code # "Ok" THEN [out |-> Panicked, value |-> "none"]
    ELSE [out |-> Returned, value |-> hdr[r.ptr].value]

\* The bit pattern of an f32 read as an i32, and back.  A pattern that is
\* not one of the named floats is kept as the pattern.
f32_to_bits(f) ==
    CASE f = F(0) -> 0
      [] f = F(1) -> 1065353216
      [] f = F(2) -> 1073741824
      [] f = F(-1) -> -1082130432
      [] OTHER -> IF f.cls = "bits" THEN f.v ELSE 2143289344

f32_from_bits(i) ==
    CASE i = 0 -> F(0)
      [] i = 1065353216 -> F(1)
      [] i = 1073741824 -> F(2)
      [] i = -1082130432 -> F(-1)
      [] OTHER -> [cls |-> "bits", v |-> i]

\* What lies behind the 8 bytes of a V2f when 16 bytes are read there.
AdjacentMemory == {0, 1}

\* Header::screen_window_center: the pointer to the V2f is cast to a
\* Box2<i32>; min is the two floats' bits, max is read past the value.
screen_window_center(hdr) ==
    LET r == Imf_Header_screenWindowCenter(hdr) IN
    IF r.code # "Ok" THEN { [out |-> Panicked, value |-> "none"] }
    ELSE { [out |-> Returned,
            value |-> Box(f32_to_bits(hdr[r.ptr].value.x), f32_to_bits(hdr[r.ptr].value.y), a, b)] :
           a \in AdjacentMemory, b \in AdjacentMemory }

\* Header::screen_window_center_mut: the same cast, on a mutable pointer.
screen_window_center_mut(hdr) ==
    LET r == Imf_Header_screenWindowCenter(hdr) IN
    IF r.code # "Ok" THEN [out |-> Panicked, ptr |-> 0] ELSE [out |-> Returned, ptr |-> r.ptr]

\* Header::screen_window_width.
screen_window_width(hdr) ==
    LET r == Imf_Header_screenWindowWidth(hdr) IN
    IF r.code # "Ok" THEN [out |-> Panicked, value |-> "none"]
    ELSE [out |-> Returned, value |-> hdr[r.ptr].value]

\* Header::screen_window_width_mut: returns &f32, a shared reference.
screen_window_width_mut(hdr) ==
    LET r == Imf_Header_screenWindowWidth(hdr) IN
    IF r.code # "Ok" THEN [out |-> Panicked, value |-> "none", mutable |-> FALSE]
    ELSE [out |-> Returned, value |-> hdr[r.ptr].value, mutable |-> FALSE]

\* Header::line_order.
line_order(hdr) ==
    LET r == Imf_Header_lineOrder(hdr) IN
    IF r.code # "Ok" THEN [out |-> Panicked, value |-> "none"]
    ELSE [out |-> Returned, value |-> hdr[r.ptr].value]

\* Header::compression.
compression(hdr) ==
    LET r == Imf_Header_compression(hdr) IN
    IF r.code # "Ok" THEN [out |-> Panicked, value |-> "none"]
    ELSE [out |-> Returned, value |-> hdr[r.ptr].value]

\* Header::channels_mut.
channels_mut(hdr) ==
    LET r == Imf_Header_channels(hdr) IN
    IF r.code # "Ok" THEN [out |-> Panicked, ptr |-> 0] ELSE [out |-> Returned, ptr |-> r.ptr]

\* Header::set_line_order.
set_line_order(hdr, lo) ==
    LET r == Imf_Header_lineOrder(hdr) IN
    IF r.code # "Ok" THEN [out |-> Panicked, hdr |-> hdr]
    ELSE [out |-> Returned, hdr |-> [hdr EXCEPT ![r.ptr].value = lo]]

\* Header::set_name: the status of the foreign call is not looked at.
set_name(hdr, name) ==
    LET cname == CString_new(name) IN
    IF ~cname.ok THEN [out |-> Panicked, hdr |-> hdr]
    ELSE [out |-> Returned, hdr |-> Imf_Header_setName(hdr, cname.bytes).hdr]

\* Header::set_image_type: the status of the foreign call is not looked at.
set_image_type(hdr, image_type) ==
    LET cimage_type == CString_new(image_type) IN
    IF ~cimage_type.ok THEN [out |-> Panicked, hdr |-> hdr]
    ELSE [out |-> Returned, hdr |-> Imf_Header_setType(hdr, cimage_type.bytes).hdr]

\* Header::set_tile_description: the status of the foreign call is not looked at.
set_tile_description(hdr, td) ==
    [out |-> Returned, hdr |-> Imf_Header_setTileDescription(hdr, td).hdr]

\* Header::has_tile_description.
has_tile_description(hdr) == Imf_Header_hasTileDescription(hdr)

\* Header::set_version: the status of the foreign call is not looked at.
set_version(hdr, v) ==
    [out |-> Returned, hdr |-> Imf_Header_setVersion(hdr, v).hdr]

\* Header::has_version.
has_version(hdr) == Imf_Header_hasVersion(hdr)

\* Header::has_chunk_count.
has_chunk_count(hdr) == Imf_Header_hasChunkCount(hdr)

\* Header::set_view: the status of the foreign call is not looked at.
set_view(hdr, view) ==
    LET cview == CString_new(view) IN
    IF ~cview.ok THEN [out |-> Panicked, hdr |-> hdr]
    ELSE [out |-> Returned, hdr |-> Imf_Header_setView(hdr, cview.bytes).hdr]

\* Header::has_view.
has_view(hdr) == Imf_Header_hasView(hdr)

\* Header::set_preview_image: the status of the foreign call is not looked at.
set_preview_image(hdr, pi) ==
    [out |-> Returned, hdr |-> Imf_Header_setPreviewImage(hdr, pi).hdr]

\* Header::has_preview_image.
has_preview_image(hdr) == Imf_Header_hasPreviewImage(hdr)

(***************************************************************************)
(* header.rs: the read accessors of the optional attributes.  Each yields  *)
(* the set of outcomes the call can have.  The pointer handed to the       *)
(* foreign call starts as null and is left null when the call raises.      *)
(***************************************************************************)
\* CStr::from_ptr(cptr).to_string_lossy().to_string(): the bytes up to the
\* first NUL byte.
CStr_from_ptr(s) == <<s[1]>>

\* A null pointer is dereferenced: the behaviour is undefined; the process
\* is killed, or goes on with a value that is not an attribute's.
NullDereference ==
    { [out |-> [tag |-> "Crash", err |-> "none"], value |-> "none"],
      [out |-> Returned, value |-> "undefined"] }

\* Header::name: .unwrap() panics when the foreign call raised.
Header_name(hdr) ==
    LET r == Imf_Header_name(hdr) IN
    IF r.code # "Ok" THEN { [out |-> Panicked, value |-> "none"] }
    ELSE { [out |-> Returned, value |-> CStr_from_ptr(hdr[r.ptr].value)] }

\* Header::image_type: the status is not looked at, the pointer is used.
Header_image_type(hdr) ==
    LET r == Imf_Header_type(hdr) IN
    IF r.ptr = 0 THEN NullDereference
    ELSE { [out |-> Returned, value |-> CStr_from_ptr(hdr[r.ptr].value)] }

\* Header::view: the status is not looked at, the pointer is used.
Header_view(hdr) ==
    LET r == Imf_Header_view(hdr) IN
    IF r.ptr = 0 THEN NullDereference
    ELSE { [out |-> Returned, value |-> CStr_from_ptr(hdr[r.ptr].value)] }

\* Header::version: the status is not looked at, *v is read.
Header_version(hdr) ==
    LET r == Imf_Header_version(hdr) IN
    IF r.ptr = 0 THEN NullDereference
    ELSE { [out |-> Returned, value |-> hdr[r.ptr].value] }

\* Header::chunk_count: the status is not looked at, *ptr is read.
Header_chunk_count(hdr) ==
    LET r == Imf_Header_chunkCount(hdr) IN
    IF r.ptr = 0 THEN NullDereference
    ELSE { [out |-> Returned, value |-> hdr[r.ptr].value] }

\* Header::tile_description: the status is not looked at, &*ptr is returned.
Header_tile_description(hdr) ==
    LET r == Imf_Header_tileDescription(hdr) IN
    IF r.ptr = 0 THEN NullDereference
    ELSE { [out |-> Returned, value |-> hdr[r.ptr].value] }

\* Header::preview_image: the status is not looked at, &*ptr is returned.
Header_preview_image(hdr) ==
    LET r == Imf_Header_previewImage(hdr) IN
    IF r.ptr = 0 THEN NullDereference
    ELSE { [out |-> Returned, value |-> hdr[r.ptr].value] }

(***************************************************************************)
(* header.rs: validation and the process-wide limits.                      *)
(***************************************************************************)
\* A variant of sanity_check that hands the two flags over in the other order.
sanity_check_flags_swapped(hdr, lim, is_tiled, is_multi_part) ==
    into_result(Imf_Header_sanityCheck(hdr, lim, is_multi_part, is_tiled))

\* Header::sanity_check: Ok(()) or the violation found.
sanity_check(hdr, lim, is_tiled, is_multi_part) ==
    into_result(Imf_Header_sanityCheck(hdr, lim, is_tiled, is_multi_part))

\* A variant of set_max_image_size that hands width and height over swapped.
set_max_image_size_swapped(lim, max_width, max_height) ==
    Imf_Header_setMaxImageSize(lim, max_height, max_width)

\* Header::set_max_image_size.
set_max_image_size(lim, max_width, max_height) ==
    Imf_Header_setMaxImageSize(lim, max_width, max_height)

\* A variant of set_max_tile_size that calls the image size setter.
set_max_tile_size_as_image(lim, max_width, max_height) ==
    Imf_Header_setMaxImageSize(lim, max_width, max_height)

\* A variant of set_max_tile_size that hands width and height over swapped.
set_max_tile_size_swapped(lim, max_width, max_height) ==
    Imf_Header_setMaxTileSize(lim, max_height, max_width)

\* Header::set_max_tile_size.
set_max_tile_size(lim, max_width, max_height) ==
    Imf_Header_setMaxTileSize(lim, max_width, max_height)

(***************************************************************************)
(* The calls as steps of the program.  A panic unwinds out of the call and *)
(* leaves the header as it was; the caller goes on.                        *)
(***************************************************************************)
Insert(h, name, attribute) ==
    LET r == insert(headers[h], name, attribute) IN
    /\ headers' = [headers EXCEPT ![h] = r.hdr]
    /\ ret' = [op |-> "insert", h |-> h, name |-> name, attr |-> attribute,
               tag |-> r.out.tag, err |-> r.out.err]
    /\ UNCHANGED limits

Erase(h, name) ==
    LET r == erase(headers[h], name) IN
    /\ headers' = [headers EXCEPT ![h] = r.hdr]
    /\ ret' = [op |-> "erase", h |-> h, name |-> name,
               tag |-> r.out.tag, err |-> r.out.err]
    /\ UNCHANGED limits

FindBox2i(h, name) ==
    LET r == find_typed_attribute_box2i(headers[h], name) IN
    /\ ret' = [op |-> "find_typed_attribute_box2i", h |-> h, name |-> name,
               tag |-> r.out.tag, err |-> r.out.err, ref |-> r.ref]
    /\ UNCHANGED <<headers, limits>>

FindBox2iMut(h, name) ==
    LET r == find_typed_attribute_box2i_mut(headers[h], name) IN
    /\ ret' = [op |-> "find_typed_attribute_box2i_mut", h |-> h, name |-> name,
               tag |-> r.out.tag, err |-> r.out.err, ref |-> r.ref]
    /\ UNCHANGED <<headers, limits>>

\* set_dimensions on a build with (overflow_checks) or without overflow checks.
SetDimensions(h, width, height, overflow_checks) ==
    LET r == set_dimensions(headers[h], width, height, overflow_checks) IN
    /\ headers' = [headers EXCEPT ![h] = r.hdr]
    /\ ret' = [op |-> "set_dimensions", h |-> h, width |-> width, height |-> height,
               tag |-> r.out.tag, err |-> r.out.err]
    /\ UNCHANGED limits

\* let header = Header::from_dimensions(width, height): the header h is
\* replaced by the new one, unless the call panicked.
FromDimensions(h, width, height, overflow_checks) ==
    LET r == from_dimensions(width, height, overflow_checks) IN
    /\ headers' = IF r.out.tag = "Panic" THEN headers ELSE [headers EXCEPT ![h] = r.hdr]
    /\ ret' = [op |-> "from_dimensions", h |-> h, width |-> width, height |-> height,
               tag |-> r.out.tag, err |-> r.out.err]
    /\ UNCHANGED limits

\* *data_window_mut() = box.
DataWindowMut(h, box) ==
    LET r == data_window_mut(headers[h]) IN
    /\ headers' = IF r.out.tag = "Panic" THEN headers
                  ELSE [headers EXCEPT ![h][r.ptr].value = box]
    /\ ret' = [op |-> "data_window_mut", h |-> h, box |-> box,
               tag |-> r.out.tag, err |-> r.out.err]
    /\ UNCHANGED limits

\* *display_window_mut() = box.
DisplayWindowMut(h, box) ==
    LET r == display_window_mut(headers[h]) IN
    /\ headers' = IF r.out.tag = "Panic" THEN headers
                  ELSE [headers EXCEPT ![h][r.ptr].value = box]
    /\ ret' = [op |-> "display_window_mut", h |-> h, box |-> box,
               tag |-> r.out.tag, err |-> r.out.err]
    /\ UNCHANGED limits

SetPixelAspectRatio(h, par) ==
    LET r == set_pixel_aspect_ratio(headers[h], par) IN
    /\ headers' = [headers EXCEPT ![h] = r.hdr]
    /\ ret' = [op |-> "set_pixel_aspect_ratio", h |-> h, par |-> par,
               tag |-> r.out.tag, err |-> r.out.err]
    /\ UNCHANGED limits

\* *channels_mut() = cl.
ChannelsMut(h, cl) ==
    LET r == channels_mut(headers[h]) IN
    /\ headers' = IF r.out.tag = "Panic" THEN headers
                  ELSE [headers EXCEPT ![h][r.ptr].value = cl]
    /\ ret' = [op |-> "channels_mut", h |-> h, channels |-> cl,
               tag |-> r.out.tag, err |-> r.out.err]
    /\ UNCHANGED limits

SetLineOrder(h, lo) ==
    LET r == set_line_order(headers[h], lo) IN
    /\ headers' = [headers EXCEPT ![h] = r.hdr]
    /\ ret' = [op |-> "set_line_order", h |-> h, lo |-> lo,
               tag |-> r.out.tag, err |-> r.out.err]
    /\ UNCHANGED limits

SetName(h, name) ==
    LET r == set_name(headers[h], name) IN
    /\ headers' = [headers EXCEPT ![h] = r.hdr]
    /\ ret' = [op |-> "set_name", h |-> h, name |-> name,
               tag |-> r.out.tag, err |-> r.out.err]
    /\ UNCHANGED limits

SetImageType(h, image_type) ==
    LET r == set_image_type(headers[h], image_type) IN
    /\ headers' = [headers EXCEPT ![h] = r.hdr]
    /\ ret' = [op |-> "set_image_type", h |-> h, image_type |-> image_type,
               tag |-> r.out.tag, err |-> r.out.err]
    /\ UNCHANGED limits

SetTileDescription(h, td) ==
    LET r == set_tile_description(headers[h], td) IN
    /\ headers' = [headers EXCEPT ![h] = r.hdr]
    /\ ret' = [op |-> "set_tile_description", h |-> h, td |-> td,
               tag |-> r.out.tag, err |-> r.out.err]
    /\ UNCHANGED limits

SetVersion(h, v) ==
    LET r == set_version(headers[h], v) IN
    /\ headers' = [headers EXCEPT ![h] = r.hdr]
    /\ ret' = [op |-> "set_version", h |-> h, v |-> v,
               tag |-> r.out.tag, err |-> r.out.err]
    /\ UNCHANGED limits

SetView(h, view) ==
    LET r == set_view(headers[h], view) IN
    /\ headers' = [headers EXCEPT ![h] = r.hdr]
    /\ ret' = [op |-> "set_view", h |-> h, view |-> view,
               tag |-> r.out.tag, err |-> r.out.err]
    /\ UNCHANGED limits

SetPreviewImage(h, pi) ==
    LET r == set_preview_image(headers[h], pi) IN
    /\ headers' = [headers EXCEPT ![h] = r.hdr]
    /\ ret' = [op |-> "set_preview_image", h |-> h, pi |-> pi,
               tag |-> r.out.tag, err |-> r.out.err]
    /\ UNCHANGED limits

\* A read accessor called with one of the outcomes it can have.
Read(op, h, outcomes) ==
    \E r \in outcomes :
        /\ ret' = [op |-> op, h |-> h, tag |-> r.out.tag, err |-> r.out.err,
                   value |-> r.value]
        /\ UNCHANGED <<headers, limits>>

Name(h) == Read("name", h, Header_name(headers[h]))
ImageType(h) == Read("image_type", h, Header_image_type(headers[h]))
View(h) == Read("view", h, Header_view(headers[h]))
Version(h) == Read("version", h, Header_version(headers[h]))
ChunkCount(h) == Read("chunk_count", h, Header_chunk_count(headers[h]))
TileDescriptionOf(h) == Read("tile_description", h, Header_tile_description(headers[h]))
PreviewImageOf(h) == Read("preview_image", h, Header_preview_image(headers[h]))

\* let header = Header::new(..)?: the header h is replaced by the new one.
New(h, dw, disp, par, center, width, lo, cmp) ==
    LET r == Header_new(dw, disp, par, center, width, lo, cmp) IN
    /\ headers' = IF r.out.tag = "Ok" THEN [headers EXCEPT ![h] = r.hdr] ELSE headers
    /\ ret' = [op |-> "Header_new", h |-> h, data_window |-> dw, display_window |-> disp,
               pixel_aspect_ratio |-> par, screen_window_center |-> center,
               screen_window_width |-> width, line_order |-> lo, compression |-> cmp,
               tag |-> r.out.tag, err |-> r.out.err]
    /\ UNCHANGED limits

ScreenWindowCenter(h) == Read("screen_window_center", h, screen_window_center(headers[h]))

\* *screen_window_center_mut() = box: 16 bytes are written over the 8 of
\* the V2f.  The two floats take the bits of box.min; box.max goes past
\* the value, which is undefined: the process goes on or is killed.
ScreenWindowCenterMut(h, box) ==
    LET r == screen_window_center_mut(headers[h]) IN
    \E tag \in IF r.out.tag = "Panic" THEN {"Panic"} ELSE {"Ok", "Crash"} :
        /\ headers' = IF r.out.tag = "Panic" THEN headers
                      ELSE [headers EXCEPT ![h][r.ptr].value =
                                V2(f32_from_bits(box.min[1]), f32_from_bits(box.min[2]))]
        /\ ret' = [op |-> "screen_window_center_mut", h |-> h, written |-> box,
                   tag |-> tag, err |-> "none"]
        /\ UNCHANGED limits

\* screen_window_width_mut(): the caller gets a &f32 and can only read it.
ScreenWindowWidthMut(h) ==
    LET r == screen_window_width_mut(headers[h]) IN
    /\ ret' = [op |-> "screen_window_width_mut", h |-> h, value |-> r.value,
               mutable |-> r.mutable, tag |-> r.out.tag, err |-> r.out.err]
    /\ UNCHANGED <<headers, limits>>

\* A variant of the sanity_check step that repairs a header it rejects.
SanityCheck_repairing(h, is_tiled, is_multi_part) ==
    LET r == sanity_check(headers[h], limits, is_tiled, is_multi_part) IN
    /\ ret' = [op |-> "sanity_check", h |-> h, is_tiled |-> is_tiled,
               is_multi_part |-> is_multi_part, tag |-> r.tag, err |-> r.err]
    /\ headers' = IF r.tag = "Ok" THEN headers
                  ELSE [headers EXCEPT ![h] = set_dimensions(headers[h], 1, 1, TRUE).hdr]
    /\ UNCHANGED limits

SanityCheck(h, is_tiled, is_multi_part) ==
    LET r == sanity_check(headers[h], limits, is_tiled, is_multi_part) IN
    /\ ret' = [op |-> "sanity_check", h |-> h, is_tiled |-> is_tiled,
               is_multi_part |-> is_multi_part, tag |-> r.tag, err |-> r.err]
    /\ UNCHANGED <<headers, limits>>

SetMaxImageSize(max_width, max_height) ==
    /\ limits' = set_max_image_size(limits, max_width, max_height)
    /\ ret' = [op |-> "set_max_image_size", max_width |-> max_width,
               max_height |-> max_height, tag |-> "Ok", err |-> "none"]
    /\ UNCHANGED headers

SetMaxTileSize(max_width, max_height) ==
    /\ limits' = set_max_tile_size(limits, max_width, max_height)
    /\ ret' = [op |-> "set_max_tile_size", max_width |-> max_width,
               max_height |-> max_height, tag |-> "Ok", err |-> "none"]
    /\ UNCHANGED headers

(***************************************************************************)
(* The state after construction.                                           *)
(***************************************************************************)
\* At program startup the limits are zero: unlimited.
StartupLimits == [imageWidth |-> 0, imageHeight |-> 0, tileWidth |-> 0, tileHeight |-> 0]

NoCall == [op |-> "new", tag |-> "Ok", err |-> "none"]

(***************************************************************************)
(* SpecRegistry: one default header under insert, erase and the typed      *)
(* lookups.                                                                *)
(***************************************************************************)
UserNames == { <<"a">>, <<"b">>, EmptyStr, <<"a", "b">>, N_dataWindow }

UserAttributes == { Box2iAttribute(Box(0, 0, 0, 0)), Box2iAttribute(Box(1, 1, 2, 2)),
                    StringAttribute(<<"x">>), IntAttribute(1) }

InitRegistry ==
    /\ headers = [h \in {"h1"} |-> Header_default]
    /\ limits = StartupLimits
    /\ ret = NoCall

NextRegistry ==
    \/ \E h \in DOMAIN headers, name \in UserNames, attribute \in UserAttributes :
           Insert(h, name, attribute)
    \/ \E h \in DOMAIN headers, name \in UserNames : Erase(h, name)
    \/ \E h \in DOMAIN headers, name \in UserNames : FindBox2i(h, name)
    \/ \E h \in DOMAIN headers, name \in UserNames : FindBox2iMut(h, name)

SpecRegistry == InitRegistry /\ [][NextRegistry]_vars

(***************************************************************************)
(* Claims on the registry.                                                 *)
(***************************************************************************)
C1_InsertStep ==
    ret'.op = "insert" =>
        LET h == ret'.h
            n == ret'.name
            a == ret'.attr
            i == FindIndex(headers[h], n)
        IN  i # 0 =>
                IF headers[h][i].type = a.type
                THEN /\ ret'.tag = "Ok"
                     /\ Cardinality(IndicesOf(headers'[h], n)) = 1
                     /\ \A j \in IndicesOf(headers'[h], n) :
                            /\ headers'[h][j].type = a.type
                            /\ headers'[h][j].value = a.value
                ELSE /\ ret'.tag = "Err"
                     /\ ret'.err = "TypeMismatch"
                     /\ headers' = headers

C1_NoDuplicates ==
    \A h \in DOMAIN headers : \A i, j \in 1..Len(headers[h]) :
        headers[h][i].name = headers[h][j].name => i = j

\* C1: insert(n, a) on a name that exists with a's type returns Ok, stores
\* a's value and leaves exactly one entry named n; on a name that exists
\* with another type it returns TypeMismatch and leaves the header as it
\* was; and in every state no two entries of a header share a name.
C1_NameUniqueness == [][C1_InsertStep]_vars /\ []C1_NoDuplicates

\* An insert was refused with TypeMismatch and the entry is still there.
C1_Witness ==
    /\ ret.op = "insert"
    /\ ret.tag = "Err"
    /\ ret.err = "TypeMismatch"
    /\ HasAttr(headers[ret.h], ret.name)
    /\ headers[ret.h][FindIndex(headers[ret.h], ret.name)].type # ret.attr.type

\* C2: a typed Box2i lookup returns Some exactly when the name is present
\* with the Box2i type, returns None otherwise, never panics, and the
\* reference it yields is to a Box2i value.
C2_FailClosed ==
    ret.op \in {"find_typed_attribute_box2i", "find_typed_attribute_box2i_mut"} =>
        LET hdr == headers[ret.h]
            i == FindIndex(hdr, ret.name)
            present == i # 0 /\ hdr[i].type = "box2i"
        IN  /\ ret.tag \in {"Some", "None"}
            /\ ret.tag = "Some" <=> present
            /\ ret.tag = "Some" => ret.ref.type = "box2i" /\ ret.ref = hdr[i]

\* C3: erase of a name that is not in the header returns Ok and leaves
\* every entry of the header, and their order, as it was.
C3_EraseAbsent ==
    [][ret'.op = "erase" /\ ~HasAttr(headers[ret'.h], ret'.name)
          => ret'.tag = "Ok" /\ headers' = headers]_vars

\* C11: insert under an empty name, or under a name that holds a NUL byte,
\* returns the error InvalidName, does not panic, and leaves the header as
\* it was: nothing is stored, under the name or under a part of it.
C11_InvalidName ==
    [][ret'.op = "insert" /\ (ret'.name = EmptyStr \/ HasNul(ret'.name))
          => /\ ret'.tag = "Err"
             /\ ret'.err = "InvalidName"
             /\ headers' = headers]_vars

(***************************************************************************)
(* SpecDims: one default header under set_dimensions, writes through the   *)
(* window references, and erase and insert of the window attributes.       *)
(***************************************************************************)
Dims == (0 - MinDimBelow)..MaxDim

WindowNames == {N_dataWindow, N_displayWindow}

WindowBoxes == {Box(1, 1, 2, 2), Box(0, 0, 63, 63)}

WindowAttributes == {Box2iAttribute(Box(1, 1, 2, 2)), StringAttribute(<<"x">>)}

InitDims ==
    /\ headers = [h \in {"h1"} |-> Header_default]
    /\ limits = StartupLimits
    /\ ret = NoCall

NextDims ==
    \/ \E h \in DOMAIN headers, width \in Dims, height \in Dims, overflow_checks \in BOOLEAN :
           SetDimensions(h, width, height, overflow_checks)
    \/ \E h \in DOMAIN headers, box \in WindowBoxes : DataWindowMut(h, box)
    \/ \E h \in DOMAIN headers, box \in WindowBoxes : DisplayWindowMut(h, box)
    \/ \E h \in DOMAIN headers, name \in WindowNames : Erase(h, name)
    \/ \E h \in DOMAIN headers, name \in WindowNames, attribute \in WindowAttributes :
           Insert(h, name, attribute)

SpecDims == InitDims /\ [][NextDims]_vars

\* C4: whenever set_dimensions(w, h) returns for positive w and h, the data
\* window and the display window both read back as [(0,0), (w-1, h-1)].
C4_DimensionDerivation ==
    ret.op = "set_dimensions" /\ ret.tag = "Ok" /\ ret.width > 0 /\ ret.height > 0 =>
        LET box == Box(0, 0, ret.width - 1, ret.height - 1) IN
        /\ data_window(headers[ret.h]) = [out |-> Returned, value |-> box]
        /\ display_window(headers[ret.h]) = [out |-> Returned, value |-> box]

\* set_dimensions(2, 3) has returned and both windows are [(0,0), (1,2)].
C4_Witness ==
    /\ ret.op = "set_dimensions"
    /\ ret.tag = "Ok"
    /\ ret.width = 2
    /\ ret.height = 3
    /\ data_window(headers[ret.h]).value = Box(0, 0, 1, 2)
    /\ display_window(headers[ret.h]).value = Box(0, 0, 1, 2)

(***************************************************************************)
(* SpecSanity: one default header whose attributes are driven to valid and *)
(* invalid values, with sanity_check called in between.                    *)
(***************************************************************************)
Channel(n, xs, ys) == [name |-> n, xSampling |-> xs, ySampling |-> ys]

TileDescription(xs, ys, mode) == [xSize |-> xs, ySize |-> ys, mode |-> mode]

SanityWidthsPx == {0, 1}
SanityHeightsPx == {1}
SanityRatios == {F(1), F_NaN}
SanityWidths == {F(1), F(-1)}
SanityChannels == { <<>>, <<Channel(<<"R">>, 0, 1)>> }
LineOrders == {"IncreasingY", "DecreasingY", "RandomY"}
SanityTiles == { TileDescription(1, 1, "ONE_LEVEL"), TileDescription(0, 1, "ONE_LEVEL") }
SanityNames == { <<"part">> }
SanityTypes == { <<"scanlineimage">>, <<"tiledimage">> }

InitSanity ==
    /\ headers = [h \in {"h1"} |-> Header_default]
    /\ limits = StartupLimits
    /\ ret = NoCall

NextSanity ==
    \/ \E h \in DOMAIN headers, width \in SanityWidthsPx, height \in SanityHeightsPx,
          overflow_checks \in BOOLEAN :
           SetDimensions(h, width, height, overflow_checks)
    \/ \E h \in DOMAIN headers, par \in SanityRatios : SetPixelAspectRatio(h, par)
    \/ \E h \in DOMAIN headers, w \in SanityWidths :
           Insert(h, N_screenWindowWidth, FloatAttribute(w))
    \/ \E h \in DOMAIN headers, cl \in SanityChannels : ChannelsMut(h, cl)
    \/ \E h \in DOMAIN headers, lo \in LineOrders : SetLineOrder(h, lo)
    \/ \E h \in DOMAIN headers, td \in SanityTiles : SetTileDescription(h, td)
    \/ \E h \in DOMAIN headers, name \in SanityNames : SetName(h, name)
    \/ \E h \in DOMAIN headers, image_type \in SanityTypes : SetImageType(h, image_type)
    \/ \E h \in DOMAIN headers, is_tiled \in BOOLEAN, is_multi_part \in BOOLEAN :
           SanityCheck(h, is_tiled, is_multi_part)

SpecSanity == InitSanity /\ [][NextSanity]_vars

(***************************************************************************)
(* SpecLimits: one header of varying size under a varying image size       *)
(* limit.                                                                  *)
(***************************************************************************)
LimitDims == 1..MaxDim
LimitValues == 0..MaxDim
OffsetBoxes == {Box(1, 1, 2, 2)}

InitLimits ==
    /\ headers = [h \in {"h1"} |-> Header_default]
    /\ limits = StartupLimits
    /\ ret = NoCall

NextLimits ==
    \/ \E h \in DOMAIN headers, width \in LimitDims, height \in LimitDims,
          overflow_checks \in BOOLEAN :
           SetDimensions(h, width, height, overflow_checks)
    \/ \E h \in DOMAIN headers, box \in OffsetBoxes : DataWindowMut(h, box)
    \/ \E h \in DOMAIN headers, is_tiled \in BOOLEAN, is_multi_part \in BOOLEAN :
           SanityCheck(h, is_tiled, is_multi_part)
    \/ \E max_width \in LimitValues, max_height \in LimitValues :
           SetMaxImageSize(max_width, max_height)

SpecLimits == InitLimits /\ [][NextLimits]_vars

(***************************************************************************)
(* SpecShared: two headers, built before any limit is set, under the image *)
(* and the tile size limits.                                               *)
(***************************************************************************)
SharedDims == {1, 2}
SharedLimits == {0, 1}
SharedTiles == { TileDescription(2, 2, "ONE_LEVEL") }

InitShared ==
    /\ headers = [h \in {"h1", "h2"} |-> Header_default]
    /\ limits = StartupLimits
    /\ ret = NoCall

NextShared ==
    \/ \E h \in DOMAIN headers, width \in SharedDims, height \in SharedDims,
          overflow_checks \in BOOLEAN :
           SetDimensions(h, width, height, overflow_checks)
    \/ \E h \in DOMAIN headers, td \in SharedTiles : SetTileDescription(h, td)
    \/ \E h \in DOMAIN headers, is_tiled \in BOOLEAN : SanityCheck(h, is_tiled, FALSE)
    \/ \E max_width \in SharedLimits, max_height \in SharedLimits :
           SetMaxImageSize(max_width, max_height)
    \/ \E max_width \in SharedLimits, max_height \in SharedLimits :
           SetMaxTileSize(max_width, max_height)

SpecShared == InitShared /\ [][NextShared]_vars

(***************************************************************************)
(* Claims on validation and the limits.                                    *)
(***************************************************************************)
\* The default header as documented: 64x64 windows, pixel aspect ratio 1.0,
\* screen window center (0,0) and width 1.0, IncreasingY, Zip, no channel
\* and no other attribute.
C5_DocumentedDefault ==
    Header_default =
        << Entry(N_displayWindow, Box2iAttribute(Box(0, 0, 63, 63))),
           Entry(N_dataWindow, Box2iAttribute(Box(0, 0, 63, 63))),
           Entry(N_pixelAspectRatio, FloatAttribute(F(1))),
           Entry(N_screenWindowCenter, V2fAttribute(V2(F(0), F(0)))),
           Entry(N_screenWindowWidth, FloatAttribute(F(1))),
           Entry(N_lineOrder, LineOrderAttribute("IncreasingY")),
           Entry(N_compression, CompressionAttribute("Zip")),
           Entry(N_channels, ChannelListAttribute(<<>>)) >>

C6_Enforced(hdr, W, H, r) ==
    LET dw == data_window(hdr).value
        width == dw.max[1] - dw.min[1] + 1
        height == dw.max[2] - dw.min[2] + 1
    IN  /\ W # 0 /\ width > W => r.tag = "Err"
        /\ H # 0 /\ height > H => r.tag = "Err"
        /\ W # 0 /\ H # 0 /\ width = W /\ height = H => r.err # "windows"

\* C6: once set_max_image_size(W, H) has set a non-zero limit, sanity_check
\* fails when the data window's width max.x - min.x + 1 exceeds W or its
\* height exceeds H, and does not fail on the windows when the width is W
\* and the height is H.
C6_LimitEnforcement ==
    /\ ret.op = "set_max_image_size" =>
           \A h \in DOMAIN headers :
               C6_Enforced(headers[h], ret.max_width, ret.max_height,
                           sanity_check(headers[h], limits, FALSE, FALSE))
    /\ ret.op = "sanity_check" =>
           C6_Enforced(headers[ret.h], limits.imageWidth, limits.imageHeight, ret)

\* sanity_check has passed a data window [(1,1), (2,2)] under the limit (2, 2).
C6_Witness ==
    /\ ret.op = "sanity_check"
    /\ limits.imageWidth = 2
    /\ limits.imageHeight = 2
    /\ data_window(headers[ret.h]).value = Box(1, 1, 2, 2)
    /\ ret.tag = "Ok"

C7_SizeOf(hdr) ==
    [width |-> BoxWidth(data_window(hdr).value), height |-> BoxHeight(data_window(hdr).value)]

C7_ImageWithin(hdr) ==
    /\ limits.imageWidth = 0 \/ C7_SizeOf(hdr).width <= limits.imageWidth
    /\ limits.imageHeight = 0 \/ C7_SizeOf(hdr).height <= limits.imageHeight

C7_TileWithin(hdr) ==
    LET td == hdr[FindIndex(hdr, N_tiles)].value IN
    /\ limits.tileWidth = 0 \/ td.xSize <= limits.tileWidth
    /\ limits.tileHeight = 0 \/ td.ySize <= limits.tileHeight

\* The limits change only in a call of one of the two setters.
C7_OnlySetters ==
    limits' # limits => ret'.op \in {"set_max_image_size", "set_max_tile_size"}

\* A setter stores its arguments as the limits it names and leaves the
\* other two; sanity_check, on either header, decides by the limits as
\* they are now, and a limit of zero rejects nothing.
C7_CurrentLimits ==
    /\ ret.op = "set_max_image_size" =>
           limits.imageWidth = ret.max_width /\ limits.imageHeight = ret.max_height
    /\ ret.op = "set_max_tile_size" =>
           limits.tileWidth = ret.max_width /\ limits.tileHeight = ret.max_height
    /\ ret.op = "sanity_check" =>
           LET hdr == headers[ret.h] IN
           /\ ~C7_ImageWithin(hdr) => ret.err = "windows"
           /\ C7_ImageWithin(hdr) => ret.err # "windows"
           /\ ret.is_tiled /\ HasAttr(hdr, N_tiles) /\ C7_ImageWithin(hdr) =>
                  (ret.tag = "Ok" <=> C7_TileWithin(hdr))
           /\ ~ret.is_tiled /\ C7_ImageWithin(hdr) => ret.tag = "Ok"

\* C7: the limits start at zero, change only through set_max_image_size and
\* set_max_tile_size, and every sanity_check, on every header, decides by
\* the limits in force when it is called; a limit of zero rejects nothing.
C7_ProcessWideLimits ==
    /\ limits = [imageWidth |-> 0, imageHeight |-> 0, tileWidth |-> 0, tileHeight |-> 0]
    /\ [][C7_OnlySetters]_vars
    /\ []C7_CurrentLimits

\* Both headers are as built, before any setter was called; the width limit
\* is now 1 and sanity_check rejects the second header for its windows.
C7_Witness ==
    /\ headers["h1"] = Header_default
    /\ headers["h2"] = Header_default
    /\ limits.imageWidth = 1
    /\ ret.op = "sanity_check"
    /\ ret.h = "h2"
    /\ ret.err = "windows"

C8_LineOrderOf(hdr) == hdr[FindIndex(hdr, N_lineOrder)].value

\* C8: sanity_check rejects a RandomY header when is_tiled is false; when
\* the line order is all that it rejects, the header given a valid tile
\* description passes with is_tiled true; and it never reports the line
\* order of an IncreasingY or DecreasingY header.
C8_LineOrderCoupling ==
    ret.op = "sanity_check" =>
        LET hdr == headers[ret.h] IN
        /\ C8_LineOrderOf(hdr) = "RandomY" /\ ~ret.is_tiled => ret.tag = "Err"
        /\ ( /\ C8_LineOrderOf(hdr) = "RandomY"
             /\ ret.is_tiled
             /\ sanity_check(hdr, limits, FALSE, ret.is_multi_part).err = "lineOrder"
             /\ HasAttr(hdr, N_tiles)
             /\ hdr[FindIndex(hdr, N_tiles)].value = TileDescription(1, 1, "ONE_LEVEL") )
               => ret.tag = "Ok"
        /\ C8_LineOrderOf(hdr) \in {"IncreasingY", "DecreasingY"} => ret.err # "lineOrder"

\* A RandomY header with a valid tile description has passed as tiled.
C8_Witness ==
    /\ ret.op = "sanity_check"
    /\ C8_LineOrderOf(headers[ret.h]) = "RandomY"
    /\ ret.is_tiled
    /\ sanity_check(headers[ret.h], limits, FALSE, ret.is_multi_part).err = "lineOrder"
    /\ ret.tag = "Ok"

\* The violation the fixed order asks for.
C9_Expected(hdr, lim, t, m) ==
    IF ~CheckWindows(hdr, lim) THEN "windows"
    ELSE IF ~CheckPixelAspectRatio(hdr) THEN "pixelAspectRatio"
    ELSE IF ~CheckScreenWindowWidth(hdr) THEN "screenWindowWidth"
    ELSE IF ~CheckChannels(hdr) THEN "channels"
    ELSE IF t /\ ~CheckTileDescription(hdr, lim, TRUE) THEN "tileDescription"
    ELSE IF m /\ ~CheckNameAndType(hdr, t, TRUE) THEN "nameAndType"
    ELSE IF ~CheckLineOrder(hdr, t) THEN "lineOrder"
    ELSE "none"

C9_Ordered ==
    ret.op = "sanity_check" =>
        /\ ret.err = C9_Expected(headers[ret.h], limits, ret.is_tiled, ret.is_multi_part)
        /\ ret.tag = "Ok" <=> ret.err = "none"

\* A second call with the same header, flags and limits.
C9_Repeated ==
    ( /\ ret.op = "sanity_check"
      /\ ret'.op = "sanity_check"
      /\ ret'.h = ret.h
      /\ ret'.is_tiled = ret.is_tiled
      /\ ret'.is_multi_part = ret.is_multi_part ) => ret' = ret

C10_ReadOnly ==
    [][ret'.op = "sanity_check" => headers' = headers /\ limits' = limits]_vars

\* sanity_check has rejected a header under a non-zero limit.
C10_Witness ==
    /\ ret.op = "sanity_check"
    /\ ret.tag = "Err"
    /\ limits # StartupLimits

(***************************************************************************)
(* SpecMultiPart: one default header whose name, type and tile description *)
(* are set and erased, with sanity_check called in between.                *)
(***************************************************************************)
MultiPartNames == { <<"part">>, EmptyStr }

MultiPartTypes == { <<"scanlineimage">>, <<"tiledimage">>, <<"deepscanline">>, <<"deeptile">>,
                    <<"ScanlineImage">>, EmptyStr, <<"tiled", "image">> }

MultiPartErased == { N_name, N_type }

MultiPartTiles == { TileDescription(1, 1, "ONE_LEVEL") }

InitMultiPart ==
    /\ headers = [h \in {"h1"} |-> Header_default]
    /\ limits = StartupLimits
    /\ ret = NoCall

NextMultiPart ==
    \/ \E h \in DOMAIN headers, name \in MultiPartNames : SetName(h, name)
    \/ \E h \in DOMAIN headers, image_type \in MultiPartTypes : SetImageType(h, image_type)
    \/ \E h \in DOMAIN headers, name \in MultiPartErased : Erase(h, name)
    \/ \E h \in DOMAIN headers, td \in MultiPartTiles : SetTileDescription(h, td)
    \/ \E h \in DOMAIN headers, is_tiled \in BOOLEAN, is_multi_part \in BOOLEAN :
           SanityCheck(h, is_tiled, is_multi_part)

SpecMultiPart == InitMultiPart /\ [][NextMultiPart]_vars

\* The string stored under the name n, "absent" when there is none.
C12_StringOf(hdr, n) ==
    IF HasAttr(hdr, n) /\ hdr[FindIndex(hdr, n)].type = "string"
    THEN hdr[FindIndex(hdr, n)].value
    ELSE "absent"

\* sanity_check of a part of a multi-part file passes only with a non-empty
\* name and one of the four types, a tiled one only with is_tiled.
C12_MultiPartChecked ==
    ret.op = "sanity_check" /\ ret.is_multi_part /\ ret.tag = "Ok" =>
        LET nm == C12_StringOf(headers[ret.h], N_name)
            ty == C12_StringOf(headers[ret.h], N_type)
        IN  /\ nm # "absent"
            /\ nm # <<"">>
            /\ ty \in { <<"scanlineimage">>, <<"tiledimage">>, <<"deepscanline">>, <<"deeptile">> }
            /\ ty \in { <<"tiledimage">>, <<"deeptile">> } => ret.is_tiled

\* set_image_type(s) returns and stores s, whatever the string s.
C12_SetterAccepts ==
    ret'.op = "set_image_type" =>
        /\ ret'.tag = "Ok"
        /\ C12_StringOf(headers'[ret'.h], N_type) = ret'.image_type

\* C12: with is_multi_part, sanity_check fails unless the name and the type
\* are present and non-empty, the type is one of the four image types and a
\* tiled type comes with is_tiled; set_image_type accepts and stores every
\* string, so that only sanity_check catches an unrecognized type.
C12_TypeValidation == []C12_MultiPartChecked /\ [][C12_SetterAccepts]_vars

(***************************************************************************)
(* SpecTiles: one default header whose tile description is set and erased  *)
(* under a varying tile size limit.                                        *)
(***************************************************************************)
TileSizes == 0..MaxDim
TileLimits == 0..MaxDim
TileDescriptions == { TileDescription(xs, ys, "ONE_LEVEL") : xs \in TileSizes, ys \in TileSizes }

InitTiles ==
    /\ headers = [h \in {"h1"} |-> Header_default]
    /\ limits = StartupLimits
    /\ ret = NoCall

NextTiles ==
    \/ \E h \in DOMAIN headers, td \in TileDescriptions : SetTileDescription(h, td)
    \/ \E h \in DOMAIN headers : Erase(h, N_tiles)
    \/ \E max_width \in TileLimits, max_height \in TileLimits :
           SetMaxTileSize(max_width, max_height)
    \/ \E h \in DOMAIN headers, is_tiled \in BOOLEAN, is_multi_part \in BOOLEAN :
           SanityCheck(h, is_tiled, is_multi_part)

SpecTiles == InitTiles /\ [][NextTiles]_vars

\* What a check of hdr as tiled, with outcome r, owes to the tile size
\* limit (W, H).
C13_Enforced(hdr, W, H, r) ==
    /\ ~has_tile_description(hdr) => r.tag = "Err"
    /\ has_tile_description(hdr) =>
           LET td == hdr[FindIndex(hdr, N_tiles)].value IN
           /\ td.xSize <= 0 \/ td.ySize <= 0 => r.tag = "Err"
           /\ W # 0 /\ td.xSize > W => r.tag = "Err"
           /\ H # 0 /\ td.ySize > H => r.tag = "Err"

\* C13: sanity_check with is_tiled fails on a header without a tile
\* description, on a tile width or height that is not positive, and on one
\* that exceeds a non-zero limit given to set_max_tile_size; without
\* is_tiled it never reports the tile description.
C13_TileValidation ==
    /\ ret.op = "set_max_tile_size" =>
           \A h \in DOMAIN headers :
               C13_Enforced(headers[h], ret.max_width, ret.max_height,
                            sanity_check(headers[h], limits, TRUE, FALSE))
    /\ ret.op = "sanity_check" /\ ret.is_tiled =>
           C13_Enforced(headers[ret.h], limits.tileWidth, limits.tileHeight, ret)
    /\ ret.op = "sanity_check" /\ ~ret.is_tiled =>
           /\ ret.err # "tileDescription"
           /\ ~ret.is_multi_part => ret.tag = "Ok"

\* A tile of width 2 was rejected under the tile width limit 1, and the
\* same header passes a check that is not tiled.
C13_Witness ==
    /\ ret.op = "sanity_check"
    /\ ret.is_tiled
    /\ has_tile_description(headers[ret.h])
    /\ headers[ret.h][FindIndex(headers[ret.h], N_tiles)].value.xSize = 2
    /\ headers[ret.h][FindIndex(headers[ret.h], N_tiles)].value.ySize = 1
    /\ limits.tileWidth = 1
    /\ limits.tileHeight = 0
    /\ ret.err = "tileDescription"
    /\ sanity_check(headers[ret.h], limits, FALSE, FALSE).tag = "Ok"

(***************************************************************************)
(* SpecPresence: one default header whose optional attributes are set      *)
(* through their setters, inserted by name and erased.                     *)
(***************************************************************************)
PreviewImage(w, h) == [width |-> w, height |-> h]

PresenceVersions == {1}
PresenceViews == { <<"left">>, <<"l", "r">> }
PresenceTiles == { TileDescription(1, 1, "ONE_LEVEL") }
PresencePreviews == { PreviewImage(1, 1) }
OptionalNames == {N_version, N_chunkCount, N_view, N_tiles, N_preview}
PresenceInserted == {N_chunkCount, N_view}
PresenceAttributes == { IntAttribute(1), Box2iAttribute(Box(0, 0, 0, 0)) }

InitPresence ==
    /\ headers = [h \in {"h1"} |-> Header_default]
    /\ limits = StartupLimits
    /\ ret = NoCall

NextPresence ==
    \/ \E h \in DOMAIN headers, v \in PresenceVersions : SetVersion(h, v)
    \/ \E h \in DOMAIN headers, view \in PresenceViews : SetView(h, view)
    \/ \E h \in DOMAIN headers, td \in PresenceTiles : SetTileDescription(h, td)
    \/ \E h \in DOMAIN headers, pi \in PresencePreviews : SetPreviewImage(h, pi)
    \/ \E h \in DOMAIN headers, name \in OptionalNames : Erase(h, name)
    \/ \E h \in DOMAIN headers, name \in PresenceInserted, attribute \in PresenceAttributes :
           Insert(h, name, attribute)
    \/ \E h \in DOMAIN headers, overflow_checks \in BOOLEAN :
           SetDimensions(h, 1, 1, overflow_checks)
    \/ \E h \in DOMAIN headers : SanityCheck(h, FALSE, FALSE)

SpecPresence == InitPresence /\ [][NextPresence]_vars

\* The registry holds an entry of that name and type.
C14_Present(hdr, n, t) == \E i \in 1..Len(hdr) : hdr[i].name = n /\ hdr[i].type = t

\* No optional attribute on a fresh header; each probe is true exactly when
\* its attribute is in the registry.
C14_Probes ==
    /\ ~has_version(Header_default)
    /\ ~has_chunk_count(Header_default)
    /\ ~has_view(Header_default)
    /\ ~has_tile_description(Header_default)
    /\ ~has_preview_image(Header_default)
    /\ \A h \in DOMAIN headers :
           /\ has_version(headers[h]) <=> C14_Present(headers[h], N_version, "int")
           /\ has_chunk_count(headers[h]) <=> C14_Present(headers[h], N_chunkCount, "int")
           /\ has_view(headers[h]) <=> C14_Present(headers[h], N_view, "string")
           /\ has_tile_description(headers[h]) <=> C14_Present(headers[h], N_tiles, "tiledesc")
           /\ has_preview_image(headers[h]) <=> C14_Present(headers[h], N_preview, "preview")

\* A setter that has returned leaves its probe true.
C14_SetterStep ==
    /\ ret'.op = "set_version" /\ ret'.tag = "Ok" => has_version(headers'[ret'.h])
    /\ ret'.op = "set_view" /\ ret'.tag = "Ok" => has_view(headers'[ret'.h])
    /\ ret'.op = "set_tile_description" /\ ret'.tag = "Ok" =>
           has_tile_description(headers'[ret'.h])
    /\ ret'.op = "set_preview_image" /\ ret'.tag = "Ok" =>
           has_preview_image(headers'[ret'.h])

\* A probe goes from true to false only in an erase of its attribute's name.
C14_StaysTrue ==
    \A h \in DOMAIN headers :
        /\ has_version(headers[h]) /\ ~has_version(headers'[h]) =>
               ret'.op = "erase" /\ ret'.name = N_version
        /\ has_view(headers[h]) /\ ~has_view(headers'[h]) =>
               ret'.op = "erase" /\ ret'.name = N_view
        /\ has_tile_description(headers[h]) /\ ~has_tile_description(headers'[h]) =>
               ret'.op = "erase" /\ ret'.name = N_tiles
        /\ has_preview_image(headers[h]) /\ ~has_preview_image(headers'[h]) =>
               ret'.op = "erase" /\ ret'.name = N_preview

\* No setter makes has_chunk_count true.
C14_NoChunkCountSetter ==
    \A h \in DOMAIN headers :
        ~has_chunk_count(headers[h]) /\ has_chunk_count(headers'[h]) =>
            ret'.op \notin {"set_version", "set_view", "set_tile_description",
                            "set_preview_image", "set_dimensions"}

\* C14: the five has_* probes are false on a fresh header; after
\* set_version, set_view, set_tile_description or set_preview_image has
\* returned the matching probe is true, and it stays true until an erase of
\* that attribute's name; no setter makes has_chunk_count true; and each
\* probe is true exactly when its attribute is in the registry.
C14_Presence ==
    /\ []C14_Probes
    /\ [][C14_SetterStep]_vars
    /\ [][C14_StaysTrue]_vars
    /\ [][C14_NoChunkCountSetter]_vars

(***************************************************************************)
(* SpecOptional: one default header whose optional attributes are read,    *)
(* before and after some of them are set.                                  *)
(***************************************************************************)
InitOptional ==
    /\ headers = [h \in {"h1"} |-> Header_default]
    /\ limits = StartupLimits
    /\ ret = NoCall

NextOptional ==
    \/ \E h \in DOMAIN headers : SetName(h, <<"part">>)
    \/ \E h \in DOMAIN headers : SetImageType(h, <<"scanlineimage">>)
    \/ \E h \in DOMAIN headers : SetView(h, <<"left">>)
    \/ \E h \in DOMAIN headers : SetVersion(h, 1)
    \/ \E h \in DOMAIN headers : SetTileDescription(h, TileDescription(1, 1, "ONE_LEVEL"))
    \/ \E h \in DOMAIN headers : Name(h)
    \/ \E h \in DOMAIN headers : ImageType(h)
    \/ \E h \in DOMAIN headers : View(h)
    \/ \E h \in DOMAIN headers : Version(h)
    \/ \E h \in DOMAIN headers : ChunkCount(h)
    \/ \E h \in DOMAIN headers : TileDescriptionOf(h)
    \/ \E h \in DOMAIN headers : PreviewImageOf(h)

SpecOptional == InitOptional /\ [][NextOptional]_vars

\* The attribute a read accessor reads.
C15_NameRead(op) ==
    CASE op = "name" -> N_name
      [] op = "image_type" -> N_type
      [] op = "view" -> N_view
      [] op = "version" -> N_version
      [] op = "chunk_count" -> N_chunkCount
      [] op = "tile_description" -> N_tiles
      [] op = "preview_image" -> N_preview

\* C15: name(), image_type(), view(), version(), chunk_count(),
\* tile_description() or preview_image() on a header where that attribute
\* was never set returns an absent or empty result: it does not panic and
\* does not read through a missing value.
C15_AbsentReads ==
    ( /\ ret.op \in {"name", "image_type", "view", "version", "chunk_count",
                     "tile_description", "preview_image"}
      /\ ~HasAttr(headers[ret.h], C15_NameRead(ret.op)) )
        => /\ ret.tag = "Ok"
           /\ ret.value \in {"none", <<"">>}

(***************************************************************************)
(* SpecPermissive: one header built and resized with sizes that are not    *)
(* positive, down to i32::MIN, and checked in between.                     *)
(***************************************************************************)
PermissiveDims == {I32_MIN} \cup ((0 - MinDimBelow)..1)
PermissiveBoxes == { Box(0, 0, 0, 0) }

InitPermissive ==
    /\ headers = [h \in {"h1"} |-> Header_default]
    /\ limits = StartupLimits
    /\ ret = NoCall

NextPermissive ==
    \/ \E h \in DOMAIN headers, width \in PermissiveDims, height \in PermissiveDims,
          overflow_checks \in BOOLEAN :
           SetDimensions(h, width, height, overflow_checks)
    \/ \E h \in DOMAIN headers, width \in PermissiveDims, height \in PermissiveDims,
          overflow_checks \in BOOLEAN :
           FromDimensions(h, width, height, overflow_checks)
    \/ \E h \in DOMAIN headers, box \in PermissiveBoxes : DataWindowMut(h, box)
    \/ \E h \in DOMAIN headers, box \in PermissiveBoxes : DisplayWindowMut(h, box)
    \/ \E h \in DOMAIN headers, is_tiled \in BOOLEAN, is_multi_part \in BOOLEAN :
           SanityCheck(h, is_tiled, is_multi_part)

SpecPermissive == InitPermissive /\ [][NextPermissive]_vars

\* b is [(0,0), (width-1, height-1)].
C16_IsSized(b, width, height) ==
    /\ b.min = <<0, 0>>
    /\ b.max[1] < I32_MAX /\ b.max[1] + 1 = width
    /\ b.max[2] < I32_MAX /\ b.max[2] + 1 = height

C16_Empty(b) == b.max[1] < b.min[1] \/ b.max[2] < b.min[2]

\* set_dimensions or from_dimensions with a size that is not positive
\* returns and leaves both windows [(0,0), (width-1, height-1)], an empty box.
C16_Completes ==
    ( /\ ret'.op \in {"set_dimensions", "from_dimensions"}
      /\ ret'.width <= 0 \/ ret'.height <= 0 )
        => /\ ret'.tag = "Ok"
           /\ C16_IsSized(data_window(headers'[ret'.h]).value, ret'.width, ret'.height)
           /\ C16_IsSized(display_window(headers'[ret'.h]).value, ret'.width, ret'.height)
           /\ C16_Empty(data_window(headers'[ret'.h]).value)
           /\ C16_Empty(display_window(headers'[ret'.h]).value)

\* sanity_check fails for as long as a window is empty.
C16_Caught ==
    ( /\ ret.op = "sanity_check"
      /\ \/ C16_Empty(data_window(headers[ret.h]).value)
         \/ C16_Empty(display_window(headers[ret.h]).value) )
        => ret.tag = "Err"

\* C16: set_dimensions(w, h) and from_dimensions(w, h) with w <= 0 or
\* h <= 0 return without an error and store the empty windows
\* [(0,0), (w-1, h-1)]; every sanity_check fails until the windows are set
\* to a non-empty box.
C16_PermissiveConstruction == [][C16_Completes]_vars /\ []C16_Caught

(***************************************************************************)
(* SpecFrame: one header with standard, optional and user attributes set,  *)
(* resized by set_dimensions and rebuilt by from_dimensions.               *)
(***************************************************************************)
FrameDims == {0, 1, 2}
FrameRatios == { F(2) }
FrameLineOrders == { "RandomY" }
FrameNames == { <<"part">> }
FrameTiles == { TileDescription(1, 1, "ONE_LEVEL") }
FrameUserNames == { <<"a">> }
FrameUserAttributes == { IntAttribute(1) }
FrameErased == { N_displayWindow }

InitFrame ==
    /\ headers = [h \in {"h1"} |-> Header_default]
    /\ limits = StartupLimits
    /\ ret = NoCall

NextFrame ==
    \/ \E h \in DOMAIN headers, width \in FrameDims, height \in FrameDims,
          overflow_checks \in BOOLEAN :
           SetDimensions(h, width, height, overflow_checks)
    \/ \E h \in DOMAIN headers, width \in FrameDims, height \in FrameDims,
          overflow_checks \in BOOLEAN :
           FromDimensions(h, width, height, overflow_checks)
    \/ \E h \in DOMAIN headers, par \in FrameRatios : SetPixelAspectRatio(h, par)
    \/ \E h \in DOMAIN headers, lo \in FrameLineOrders : SetLineOrder(h, lo)
    \/ \E h \in DOMAIN headers, name \in FrameNames : SetName(h, name)
    \/ \E h \in DOMAIN headers, td \in FrameTiles : SetTileDescription(h, td)
    \/ \E h \in DOMAIN headers, name \in FrameUserNames, attribute \in FrameUserAttributes :
           Insert(h, name, attribute)
    \/ \E h \in DOMAIN headers, name \in FrameErased : Erase(h, name)

SpecFrame == InitFrame /\ [][NextFrame]_vars

\* Two registries agree in everything but the values of the two windows.
C17_SameButWindows(hdr1, hdr2) ==
    /\ Len(hdr1) = Len(hdr2)
    /\ \A i \in 1..Len(hdr1) :
           /\ hdr1[i].name = hdr2[i].name
           /\ hdr1[i].type = hdr2[i].type
           /\ hdr1[i].name \notin {N_dataWindow, N_displayWindow} => hdr1[i] = hdr2[i]

C17_ValueOf(hdr, n) == hdr[FindIndex(hdr, n)].value

\* A set_dimensions call changes the two windows only.
C17_Frame ==
    ret'.op = "set_dimensions" => C17_SameButWindows(headers[ret'.h], headers'[ret'.h])

\* The header from_dimensions returns is the default one but for the windows.
C17_FromDimensions ==
    ret.op = "from_dimensions" /\ ret.tag = "Ok" =>
        /\ C17_SameButWindows(headers[ret.h], Header_default)
        /\ C17_ValueOf(headers[ret.h], N_pixelAspectRatio) = F(1)
        /\ C17_ValueOf(headers[ret.h], N_screenWindowCenter) = V2(F(0), F(0))
        /\ C17_ValueOf(headers[ret.h], N_screenWindowWidth) = F(1)
        /\ C17_ValueOf(headers[ret.h], N_lineOrder) = "IncreasingY"
        /\ C17_ValueOf(headers[ret.h], N_compression) = "Zip"

\* C17: set_dimensions leaves every attribute but the data window and the
\* display window as it was: the pixel aspect ratio, the screen window, the
\* channels, the line order, the compression, the optional and the user
\* attributes; and from_dimensions(w, h) returns the default header with
\* only the two windows changed.
C17_OnlyWindows == [][C17_Frame]_vars /\ []C17_FromDimensions

\* set_dimensions(2, 1) has resized a header that has a pixel aspect ratio
\* of 2, RandomY, a name, a tile description and a user attribute.
C17_Witness ==
    /\ ret.op = "set_dimensions"
    /\ ret.tag = "Ok"
    /\ ret.width = 2
    /\ ret.height = 1
    /\ data_window(headers[ret.h]).value = Box(0, 0, 1, 0)
    /\ display_window(headers[ret.h]).value = Box(0, 0, 1, 0)
    /\ C17_ValueOf(headers[ret.h], N_pixelAspectRatio) = F(2)
    /\ C17_ValueOf(headers[ret.h], N_lineOrder) = "RandomY"
    /\ HasAttr(headers[ret.h], N_name)
    /\ HasAttr(headers[ret.h], N_tiles)
    /\ HasAttr(headers[ret.h], <<"a">>)

(***************************************************************************)
(* SpecAccessors: one header built by Header::new and read and written     *)
(* through the screen window accessors.                                    *)
(***************************************************************************)
AccessorBoxes == { Box(0, 0, 0, 0), Box(0, 0, 1, 1) }
AccessorRatios == { F(1), F(2) }
AccessorCenters == { V2(F(0), F(0)), V2(F(1), F(2)) }
AccessorWidths == { F(1), F(2) }
AccessorLineOrders == { "IncreasingY", "DecreasingY" }
AccessorCompressions == { "None", "Zip" }
WrittenBoxes == { Box(0, 0, 0, 0), Box(1065353216, 1073741824, 1, 1) }

InitAccessors ==
    /\ headers = [h \in {"h1"} |-> Header_default]
    /\ limits = StartupLimits
    /\ ret = NoCall

NextAccessors ==
    \/ \E h \in DOMAIN headers, dw \in AccessorBoxes, disp \in AccessorBoxes,
          par \in AccessorRatios, center \in AccessorCenters, width \in AccessorWidths,
          lo \in AccessorLineOrders, cmp \in AccessorCompressions :
           New(h, dw, disp, par, center, width, lo, cmp)
    \/ \E h \in DOMAIN headers : ScreenWindowCenter(h)
    \/ \E h \in DOMAIN headers, box \in WrittenBoxes : ScreenWindowCenterMut(h, box)
    \/ \E h \in DOMAIN headers : ScreenWindowWidthMut(h)

SpecAccessors == InitAccessors /\ [][NextAccessors]_vars

\* After Header::new every accessor returns the argument it reads.
C18_ReadBack ==
    ret.op = "Header_new" /\ ret.tag = "Ok" =>
        LET hdr == headers[ret.h] IN
        /\ data_window(hdr) = [out |-> Returned, value |-> ret.data_window]
        /\ display_window(hdr) = [out |-> Returned, value |-> ret.display_window]
        /\ pixel_aspect_ratio(hdr) = [out |-> Returned, value |-> ret.pixel_aspect_ratio]
        /\ screen_window_width(hdr) = [out |-> Returned, value |-> ret.screen_window_width]
        /\ line_order(hdr) = [out |-> Returned, value |-> ret.line_order]
        /\ compression(hdr) = [out |-> Returned, value |-> ret.compression]
        /\ \A r \in screen_window_center(hdr) :
               r = [out |-> Returned, value |-> ret.screen_window_center]

\* A write through screen_window_center_mut() stores the value written;
\* screen_window_width_mut() hands out a reference that can be written.
C18_InPlace ==
    /\ ret'.op = "screen_window_center_mut" =>
           /\ ret'.tag = "Ok"
           /\ headers'[ret'.h][FindIndex(headers'[ret'.h], N_screenWindowCenter)].value
                  = ret'.written
    /\ ret'.op = "screen_window_width_mut" => ret'.tag = "Ok" /\ ret'.mutable

\* C18: after Header::new, data_window(), display_window(),
\* pixel_aspect_ratio(), screen_window_width(), line_order() and
\* compression() return the arguments and screen_window_center() returns
\* the two floats of center; screen_window_center_mut() and
\* screen_window_width_mut() let the stored value be changed in place.
C18_RoundTrip == []C18_ReadBack /\ [][C18_InPlace]_vars

====
